---- MODULE Spec2Model ----
(***************************************************************************)
(* A model of the devconnector REST backend: the post routes               *)
(* (routes/api/posts.js, the full version in src/unnamed/part_000 lines    *)
(* 178-432) and the profile routes (routes/api/profile.js,                 *)
(* src/unnamed/part_001).                                                  *)
(*                                                                         *)
(* Every handler is an async function; the event loop can run other        *)
(* requests at each `await`.  A handler that reads the store and later     *)
(* writes it is therefore two steps: the read step parks the request in    *)
(* `reqs` with the document it loaded, the write step finishes it.  A      *)
(* handler with one store call (or whose calls commute with every other    *)
(* request) is one step.                                                   *)
(***************************************************************************)
EXTENDS Integers, Sequences, FiniteSets, TLC

\* ------------------------------------------------------------------------
\* Bounds
\* ------------------------------------------------------------------------
NumUsers == 2
MaxPosts == 2
MaxComments == 3
MaxInflight == 2
MaxRequests == 3
MaxEntries == 5

Users == 1..NumUsers
PostIds == 1..MaxPosts
\* id 0 stands for a string that is not a well-formed ObjectId
IdInputs == 0..MaxPosts
CommentIdInputs == 0..MaxComments
\* id 0 stands for a string that is the id of no entry
EntryIdInputs == 0..MaxEntries
Slots == 1..MaxInflight

VARIABLES users, posts, nextPid, nextCid, profiles, reqs, nreq, last

postVars == <<users, posts, nextPid, nextCid, profiles>>
vars == <<users, posts, nextPid, nextCid, profiles, reqs, nreq, last>>

\* ------------------------------------------------------------------------
\* Values
\* ------------------------------------------------------------------------
ERR_NOTFOUND == "Post not found or is private"
SERVER_ERROR == "Server Error"

\* what findById gives for an id no document has
Null == [null |-> TRUE]
Idle == [op |-> "idle"]
NoBody == [none |-> TRUE]

\* req.body.ispublic as JavaScript sees it: its typeof and its value
IspublicInputs ==
    { [type |-> "boolean",   val |-> "true"],
      [type |-> "boolean",   val |-> "false"],
      [type |-> "string",    val |-> "false"],
      [type |-> "number",    val |-> "0"],
      [type |-> "object",    val |-> "null"],
      [type |-> "undefined", val |-> "undefined"] }

\* JavaScript's ToBoolean on those values
Truthy(x) ==
    CASE x.type = "boolean"   -> x.val = "true"
      [] x.type = "string"    -> x.val # ""
      [] x.type = "number"    -> x.val # "0"
      [] x.type = "object"    -> x.val # "null"
      [] x.type = "undefined" -> FALSE

\* the two booleans among them
BooleanInputs == {x \in IspublicInputs : x.type = "boolean"}

Texts == {"", "hello"}

\* ------------------------------------------------------------------------
\* Array helpers (Array.prototype.unshift / splice / indexOf / filter)
\* ------------------------------------------------------------------------
Unshift(s, x) == <<x>> \o s

\* splice(i, 1) with a 1-based index
Splice1(s, i) == [k \in 1..(Len(s) - 1) |-> IF k < i THEN s[k] ELSE s[k + 1]]

\* 1-based index of the first element equal to x, 0 when there is none
\* (JavaScript's indexOf gives -1 there)
IndexOf(s, x) ==
    IF \E k \in 1..Len(s) : s[k] = x
    THEN CHOOSE k \in 1..Len(s) : s[k] = x /\ \A j \in 1..(k - 1) : s[j] # x
    ELSE 0

\* post.likes.filter(like => like.user.toString() == req.user.id).length
CountLikes(likes, u) == Cardinality({k \in 1..Len(likes) : likes[k] = u})

\* post.comments.findIndex(comment => comment.id == req.params.comment_id)
FindCommentIndex(comments, cid) ==
    IF \E k \in 1..Len(comments) : comments[k].id = cid
    THEN CHOOSE k \in 1..Len(comments) :
            comments[k].id = cid /\ \A j \in 1..(k - 1) : comments[j].id # cid
    ELSE 0

\* ------------------------------------------------------------------------
\* Store
\* ------------------------------------------------------------------------
WellFormed(id) == id >= 1

\* Post.findById for a well-formed id
FindById(id) == IF id \in DOMAIN posts THEN posts[id] ELSE Null

SavePost_Merge(id, doc) ==
    IF id \in DOMAIN posts
    THEN [posts EXCEPT ![id] =
            [doc EXCEPT !.likes = doc.likes \o SelectSeq(posts[id].likes,
                                       LAMBDA u : \A k \in 1..Len(doc.likes) : doc.likes[k] # u)]]
    ELSE posts

\* document.save() of a loaded post: the document is written back as loaded
\* and mutated; a document removed meanwhile is not created again
SavePost(id, doc) ==
    IF id \in DOMAIN posts THEN [posts EXCEPT ![id] = doc] ELSE posts

\* document.remove()
RemovePost(id) == [p \in (DOMAIN posts) \ {id} |-> posts[p]]

\* a response, with what the request asked (arg), what it loaded (snap) and
\* the document it answered with (body)
Response(op, u, id, arg, status, msg, body, snap) ==
    [op |-> op, user |-> u, pid |-> id, arg |-> arg, status |-> status, msg |-> msg,
     body |-> body, snap |-> snap]

\* the response of the request that finished last
Respond(r) == last' = r

FreeSlot == IF \E i \in Slots : reqs[i] = Idle
            THEN CHOOSE i \in Slots : reqs[i] = Idle /\ \A j \in 1..(i - 1) : reqs[j] # Idle
            ELSE 0

CanStart == nreq < MaxRequests

\* a request that ends in its first step
Finish(r) ==
    /\ CanStart
    /\ nreq' = nreq + 1
    /\ Respond(r)
    /\ UNCHANGED reqs

\* a request that loaded `snap` and now awaits its write
Park(op, u, id, snap, arg) ==
    /\ CanStart
    /\ FreeSlot # 0
    /\ nreq' = nreq + 1
    /\ reqs' = [reqs EXCEPT ![FreeSlot] =
                   [op |-> op, user |-> u, pid |-> id, snap |-> snap, arg |-> arg]]
    /\ UNCHANGED last

\* ------------------------------------------------------------------------
\* POST api/posts
\* ------------------------------------------------------------------------
\* newPost.ispublic after line 213 (the schema default is true)
IspublicOf_Coerced(x) == Truthy(x)

IspublicOf(x) == IF x.type = "boolean" /\ ~Truthy(x) THEN FALSE ELSE TRUE

NewPost_SelfLiked(u, text, x) ==
    [user |-> u, text |-> text, ispublic |-> IspublicOf(x),
     likes |-> <<u>>, comments |-> <<>>]

NewPost(u, text, x) ==
    [user |-> u, text |-> text, ispublic |-> IspublicOf(x),
     likes |-> <<>>, comments |-> <<>>]

CreatePost(u, text, x) ==
    IF text = ""
    THEN /\ Finish(Response("createPost", u, 0, x, 400, "Post text is required", NoBody, Null))
         /\ UNCHANGED postVars
    ELSE IF u \notin users
    THEN \* user is null: user.name throws a TypeError
         /\ Finish(Response("createPost", u, 0, x, 500, SERVER_ERROR, NoBody, Null))
         /\ UNCHANGED postVars
    ELSE /\ nextPid <= MaxPosts
         /\ posts' = [p \in (DOMAIN posts) \cup {nextPid} |->
                         IF p = nextPid THEN NewPost(u, text, x) ELSE posts[p]]
         /\ nextPid' = nextPid + 1
         /\ Finish(Response("createPost", u, nextPid, x, 200, "", NewPost(u, text, x), Null))
         /\ UNCHANGED <<users, nextCid, profiles>>

\* ------------------------------------------------------------------------
\* GET api/posts/:id
\* ------------------------------------------------------------------------
GetPostResult(u, id) ==
    IF ~WellFormed(id)
    THEN Response("getPost", u, id, NoBody, 404, ERR_NOTFOUND, NoBody, Null)
    ELSE IF FindById(id) = Null
    THEN \* post.ispublic on null throws a TypeError, err.kind is undefined
         Response("getPost", u, id, NoBody, 500, SERVER_ERROR, NoBody, Null)
    ELSE IF ~FindById(id).ispublic
    THEN Response("getPost", u, id, NoBody, 404, ERR_NOTFOUND, NoBody, FindById(id))
    ELSE Response("getPost", u, id, NoBody, 200, "", FindById(id), FindById(id))

GetPost(u, id) ==
    /\ Finish(GetPostResult(u, id))
    /\ UNCHANGED postVars

\* ------------------------------------------------------------------------
\* DELETE api/posts/:id
\* ------------------------------------------------------------------------
\* post.user.toString() != req.user.id
NotOwner_Never(post, u) == FALSE

NotOwner(post, u) == post.user # u

DeletePostRead(u, id) ==
    /\ UNCHANGED postVars
    /\ IF ~WellFormed(id)
       THEN Finish(Response("deletePost", u, id, NoBody, 404, "Post not found", NoBody, Null))
       ELSE IF FindById(id) = Null
       THEN Finish(Response("deletePost", u, id, NoBody, 404, "Post not found", NoBody, Null))
       ELSE IF NotOwner(FindById(id), u)
       THEN Finish(Response("deletePost", u, id, NoBody, 401, "User unauthorized to delete post",
                            NoBody, FindById(id)))
       ELSE Park("deletePost", u, id, FindById(id), NoBody)

DeletePostWrite(i) ==
    /\ reqs[i] # Idle
    /\ reqs[i].op = "deletePost"
    /\ posts' = RemovePost(reqs[i].pid)
    /\ reqs' = [reqs EXCEPT ![i] = Idle]
    /\ Respond(Response("deletePost", reqs[i].user, reqs[i].pid, reqs[i].arg, 200, "Post removed",
                        NoBody, reqs[i].snap))
    /\ UNCHANGED <<users, nextPid, nextCid, profiles, nreq>>

\* ------------------------------------------------------------------------
\* PUT api/posts/like/:id
\* ------------------------------------------------------------------------
\* the status a save() answers with: a loaded document that was removed
\* meanwhile is either reported (DocumentNotFoundError) or passed silently,
\* depending on the store driver
SaveStatuses(id) == IF id \in DOMAIN posts THEN {200} ELSE {200, 500}

AlreadyLiked_Never(post, u) == FALSE

AlreadyLiked(post, u) == CountLikes(post.likes, u) > 0

Liked(post, u) == [post EXCEPT !.likes = Unshift(post.likes, u)]

LikeRead(u, id) ==
    /\ UNCHANGED postVars
    /\ IF ~WellFormed(id)
       THEN Finish(Response("like", u, id, NoBody, 404, ERR_NOTFOUND, NoBody, Null))
       ELSE IF FindById(id) = Null
       THEN Finish(Response("like", u, id, NoBody, 500, SERVER_ERROR, NoBody, Null))
       ELSE IF ~FindById(id).ispublic
       THEN Finish(Response("like", u, id, NoBody, 404, ERR_NOTFOUND, NoBody, FindById(id)))
       ELSE IF AlreadyLiked(FindById(id), u)
       THEN Finish(Response("like", u, id, NoBody, 400, "Post already liked", NoBody, FindById(id)))
       ELSE Park("like", u, id, FindById(id), NoBody)

\* the end of a parked request: its save() and its answer
SaveAndRespond(i, doc, body) ==
    /\ posts' = SavePost(reqs[i].pid, doc)
    /\ reqs' = [reqs EXCEPT ![i] = Idle]
    /\ \E st \in SaveStatuses(reqs[i].pid) :
          Respond(Response(reqs[i].op, reqs[i].user, reqs[i].pid, reqs[i].arg, st,
                           IF st = 200 THEN "" ELSE SERVER_ERROR,
                           IF st = 200 THEN body ELSE NoBody, reqs[i].snap))
    /\ UNCHANGED <<users, nextPid, nextCid, profiles, nreq>>

LikeWrite(i) ==
    /\ reqs[i] # Idle
    /\ reqs[i].op = "like"
    /\ SaveAndRespond(i, Liked(reqs[i].snap, reqs[i].user),
                      [likes |-> Liked(reqs[i].snap, reqs[i].user).likes])

\* ------------------------------------------------------------------------
\* PUT api/posts/unlike/:id
\* ------------------------------------------------------------------------
NeverLiked_Never(post, u) == FALSE

NeverLiked(post, u) == CountLikes(post.likes, u) = 0

Unliked_Last(post, u) == [post EXCEPT !.likes = SubSeq(post.likes, 1, Len(post.likes) - 1)]

Unliked(post, u) ==
    IF IndexOf(post.likes, u) >= 1
    THEN [post EXCEPT !.likes = Splice1(post.likes, IndexOf(post.likes, u))]
    ELSE post

UnlikeRead(u, id) ==
    /\ UNCHANGED postVars
    /\ IF ~WellFormed(id)
       THEN Finish(Response("unlike", u, id, NoBody, 404, ERR_NOTFOUND, NoBody, Null))
       ELSE IF FindById(id) = Null
       THEN Finish(Response("unlike", u, id, NoBody, 500, SERVER_ERROR, NoBody, Null))
       ELSE IF ~FindById(id).ispublic
       THEN Finish(Response("unlike", u, id, NoBody, 404, ERR_NOTFOUND, NoBody, FindById(id)))
       ELSE IF NeverLiked(FindById(id), u)
       THEN Finish(Response("unlike", u, id, NoBody, 400, "Post was never liked", NoBody, FindById(id)))
       ELSE Park("unlike", u, id, FindById(id), NoBody)

UnlikeWrite(i) ==
    /\ reqs[i] # Idle
    /\ reqs[i].op = "unlike"
    /\ SaveAndRespond(i, Unliked(reqs[i].snap, reqs[i].user),
                      [likes |-> Unliked(reqs[i].snap, reqs[i].user).likes])

\* ------------------------------------------------------------------------
\* POST api/posts/comment/:id
\* ------------------------------------------------------------------------
NewComment(cid, u, text) == [id |-> cid, user |-> u, text |-> text]

\* the comment a parked addComment request carries
CommentOf(r) == NewComment(r.arg.cid, r.user, r.arg.text)

Commented(post, c) == [post EXCEPT !.comments = Unshift(post.comments, c)]

\* User.findById and Post.findById read different collections and nothing is
\* written between them, so the two reads are one step
AddCommentRead(u, id, text) ==
    IF text = ""
    THEN /\ Finish(Response("addComment", u, id, NoBody, 400, "Comment text is required", NoBody, Null))
         /\ UNCHANGED postVars
    ELSE IF ~WellFormed(id)
    THEN /\ Finish(Response("addComment", u, id, NoBody, 404, ERR_NOTFOUND, NoBody, Null))
         /\ UNCHANGED postVars
    ELSE IF FindById(id) = Null
    THEN /\ Finish(Response("addComment", u, id, NoBody, 500, SERVER_ERROR, NoBody, Null))
         /\ UNCHANGED postVars
    ELSE IF ~FindById(id).ispublic
    THEN /\ Finish(Response("addComment", u, id, NoBody, 404, ERR_NOTFOUND, NoBody, FindById(id)))
         /\ UNCHANGED postVars
    ELSE IF u \notin users
    THEN \* user is null: user.name throws a TypeError
         /\ Finish(Response("addComment", u, id, NoBody, 500, SERVER_ERROR, NoBody, FindById(id)))
         /\ UNCHANGED postVars
    ELSE \* the new subdocument gets its id when it is put into the array
         /\ nextCid <= MaxComments
         /\ Park("addComment", u, id, FindById(id), [cid |-> nextCid, text |-> text])
         /\ nextCid' = nextCid + 1
         /\ UNCHANGED <<users, posts, nextPid, profiles>>

AddCommentWrite(i) ==
    /\ reqs[i] # Idle
    /\ reqs[i].op = "addComment"
    /\ SaveAndRespond(i, Commented(reqs[i].snap, CommentOf(reqs[i])),
                      [comments |-> Commented(reqs[i].snap, CommentOf(reqs[i])).comments])

\* ------------------------------------------------------------------------
\* DELETE api/posts/comment/:id/:comment_id
\* ------------------------------------------------------------------------
Uncommented_Head(post, cid) == [post EXCEPT !.comments = Tail(post.comments)]

Uncommented(post, cid) ==
    IF FindCommentIndex(post.comments, cid) >= 1
    THEN [post EXCEPT !.comments = Splice1(post.comments, FindCommentIndex(post.comments, cid))]
    ELSE post

DeleteCommentRead(u, id, cid) ==
    /\ UNCHANGED postVars
    /\ IF ~WellFormed(id)
       THEN Finish(Response("deleteComment", u, id, [cid |-> cid], 404, ERR_NOTFOUND, NoBody, Null))
       ELSE IF FindById(id) = Null
       THEN \* post.comments on null throws a TypeError
            Finish(Response("deleteComment", u, id, [cid |-> cid], 500, SERVER_ERROR, NoBody, Null))
       ELSE IF FindCommentIndex(FindById(id).comments, cid) = 0
       THEN Finish(Response("deleteComment", u, id, [cid |-> cid], 404, "Comment does not exist",
                            NoBody, FindById(id)))
       ELSE IF FindById(id).comments[FindCommentIndex(FindById(id).comments, cid)].user # u
       THEN Finish(Response("deleteComment", u, id, [cid |-> cid], 401, "User not authorized",
                            NoBody, FindById(id)))
       ELSE Park("deleteComment", u, id, FindById(id), [cid |-> cid])

DeleteCommentWrite(i) ==
    /\ reqs[i] # Idle
    /\ reqs[i].op = "deleteComment"
    /\ posts' = SavePost(reqs[i].pid, Uncommented(reqs[i].snap, reqs[i].arg.cid))
    /\ reqs' = [reqs EXCEPT ![i] = Idle]
    /\ \E st \in SaveStatuses(reqs[i].pid) :
          Respond(Response("deleteComment", reqs[i].user, reqs[i].pid, reqs[i].arg, st,
                           IF st = 200 THEN "Comment deleted" ELSE SERVER_ERROR,
                           NoBody, reqs[i].snap))
    /\ UNCHANGED <<users, nextPid, nextCid, profiles, nreq>>

\* ------------------------------------------------------------------------
\* Profiles.  A string is the sequence of its characters, so that
\* skills.split(',') and trim() can be computed.
\* ------------------------------------------------------------------------
TopKeys == {"company", "website", "location", "bio", "status", "githubusername", "skills"}
SocialKeys == {"youtube", "twitter", "facebook", "linkedin", "instagram", "devpost"}

\* the request bodies tried (req.body); a key a body lacks is undefined
Bodies ==
    { [status |-> <<"a">>, skills |-> <<"a">>, location |-> <<"a">>],
      [status |-> <<"b">>, skills |-> <<"a", ",", " ", "b">>, company |-> <<"a">>,
       youtube |-> <<"a">>],
      [status |-> <<"a">>, skills |-> <<"a">>, company |-> <<>>, youtube |-> <<"b">>],
      [status |-> <<>>, bio |-> <<"a">>] }

\* `if (x)` on a destructured body field: undefined and '' are falsy
Given(body, k) == k \in DOMAIN body /\ Len(body[k]) > 0

IndexOfChar(s, c) ==
    IF \E k \in 1..Len(s) : s[k] = c
    THEN CHOOSE k \in 1..Len(s) : s[k] = c /\ \A j \in 1..(k - 1) : s[j] # c
    ELSE 0

\* String.prototype.split(',')
RECURSIVE Split(_)
Split(s) ==
    IF IndexOfChar(s, ",") = 0
    THEN <<s>>
    ELSE <<SubSeq(s, 1, IndexOfChar(s, ",") - 1)>>
            \o Split(SubSeq(s, IndexOfChar(s, ",") + 1, Len(s)))

\* String.prototype.trim()
RECURSIVE Trim(_)
Trim(s) ==
    IF s = <<>> THEN s
    ELSE IF Head(s) = " " THEN Trim(Tail(s))
    ELSE IF s[Len(s)] = " " THEN Trim(SubSeq(s, 1, Len(s) - 1))
    ELSE s

\* skills.split(',').map(skill => skill.trim())
SkillsOf(s) == [k \in 1..Len(Split(s)) |-> Trim(Split(s)[k])]

\* profileFields.social, lines 76-83
SocialOf(body) == [k \in {k \in SocialKeys : Given(body, k)} |-> body[k]]

\* profileFields, lines 63-83
ProfileFields(u, body) ==
    [k \in {"user", "social"} \cup {k \in TopKeys : Given(body, k)} |->
        IF k = "user" THEN u
        ELSE IF k = "social" THEN SocialOf(body)
        ELSE IF k = "skills" THEN SkillsOf(body[k])
        ELSE body[k]]

\* the express-validator checks of lines 33-38
BodyErrors(body) ==
    {k \in {"status", "skills"} : ~(k \in DOMAIN body /\ Len(body[k]) > 0)}

\* $set: every field of `fields` replaces that field of the document
ApplySet_Replace(doc, fields) == fields

ApplySet(doc, fields) ==
    [k \in (DOMAIN doc) \cup (DOMAIN fields) |->
        IF k \in DOMAIN fields THEN fields[k] ELSE doc[k]]

\* new Profile(profileFields): the array paths start empty
NewProfile(fields) == ApplySet([experience |-> <<>>, education |-> <<>>], fields)

\* index of the first profile of user u in the collection, 0 when none
ProfileIndex(u) ==
    IF \E k \in 1..Len(profiles) : profiles[k].user = u
    THEN CHOOSE k \in 1..Len(profiles) :
            profiles[k].user = u /\ \A j \in 1..(k - 1) : profiles[j].user # u
    ELSE 0

\* Profile.findOne({ user: u })
FindProfile(u) == IF ProfileIndex(u) = 0 THEN Null ELSE profiles[ProfileIndex(u)]

\* Profile.findOneAndUpdate({ user: u }, { $set: fields }, { new: true })
UpdateProfile(u, fields) ==
    IF ProfileIndex(u) = 0 THEN profiles
    ELSE [profiles EXCEPT ![ProfileIndex(u)] = ApplySet(profiles[ProfileIndex(u)], fields)]

UpdatedProfile(u, fields) ==
    IF ProfileIndex(u) = 0 THEN Null ELSE ApplySet(profiles[ProfileIndex(u)], fields)

\* profile.save() of a new document
InsertProfile(doc) == Append(profiles, doc)

\* Profile.findOneAndRemove({ user: u })
RemoveProfile(u) ==
    IF ProfileIndex(u) = 0 THEN profiles ELSE Splice1(profiles, ProfileIndex(u))

\* ------------------------------------------------------------------------
\* POST api/profile
\* ------------------------------------------------------------------------
UpsertRead(u, body) ==
    /\ UNCHANGED postVars
    /\ IF BodyErrors(body) # {}
       THEN Finish(Response("upsert", u, 0, body, 400, "validation", NoBody, Null))
       ELSE Park("upsert", u, 0, FindProfile(u), body)

UpsertWrite(i) ==
    /\ reqs[i] # Idle
    /\ reqs[i].op = "upsert"
    /\ reqs' = [reqs EXCEPT ![i] = Idle]
    /\ UNCHANGED <<users, posts, nextPid, nextCid, nreq>>
    /\ IF reqs[i].snap # Null
       THEN \* Update
            /\ profiles' = UpdateProfile(reqs[i].user, ProfileFields(reqs[i].user, reqs[i].arg))
            /\ Respond(Response("upsert", reqs[i].user, 0, reqs[i].arg, 200, "update",
                                UpdatedProfile(reqs[i].user,
                                               ProfileFields(reqs[i].user, reqs[i].arg)),
                                FindProfile(reqs[i].user)))
       ELSE \* Create
            /\ profiles' = InsertProfile(NewProfile(ProfileFields(reqs[i].user, reqs[i].arg)))
            /\ Respond(Response("upsert", reqs[i].user, 0, reqs[i].arg, 200, "create",
                                NewProfile(ProfileFields(reqs[i].user, reqs[i].arg)),
                                FindProfile(reqs[i].user)))

\* ------------------------------------------------------------------------
\* DELETE api/profile
\* ------------------------------------------------------------------------
DeleteAccountProfile(u) ==
    /\ profiles' = RemoveProfile(u)
    /\ Park("deleteAccount", u, 0, FindProfile(u), NoBody)
    /\ UNCHANGED <<users, posts, nextPid, nextCid>>

DeleteAccountUser(i) ==
    /\ reqs[i] # Idle
    /\ reqs[i].op = "deleteAccount"
    /\ users' = users \ {reqs[i].user}
    /\ reqs' = [reqs EXCEPT ![i] = Idle]
    /\ Respond(Response("deleteAccount", reqs[i].user, 0, NoBody, 200, "User deleted",
                        NoBody, reqs[i].snap))
    /\ UNCHANGED <<posts, nextPid, nextCid, profiles, nreq>>

\* Profile.findOneAndRemove rejects (the store is unreachable): the catch
\* block answers the generic 500 and nothing was written
DeleteAccountProfileFails(u) ==
    /\ Finish(Response("deleteAccount", u, 0, NoBody, 500, SERVER_ERROR, NoBody, FindProfile(u)))
    /\ UNCHANGED postVars

\* User.findOneAndRemove rejects after Profile.findOneAndRemove resolved: the
\* catch block answers the generic 500 and the profile removal stays
DeleteAccountUserFails(i) ==
    /\ reqs[i] # Idle
    /\ reqs[i].op = "deleteAccount"
    /\ reqs' = [reqs EXCEPT ![i] = Idle]
    /\ Respond(Response("deleteAccount", reqs[i].user, 0, NoBody, 500, SERVER_ERROR,
                        NoBody, reqs[i].snap))
    /\ UNCHANGED <<users, posts, nextPid, nextCid, profiles, nreq>>

\* ------------------------------------------------------------------------
\* PUT api/profile/experience, PUT api/profile/education
\* ------------------------------------------------------------------------
\* the required fields of the two routes; every other field of an entry is
\* copied from the body in the same way and read by no route
ExpKeys == {"title", "company", "from"}
EduKeys == {"school", "degree", "fieldofstudy", "from"}

ExpBodies == {[title |-> "a", company |-> "a", from |-> "a"],
              [title |-> "", company |-> "a", from |-> "a"]}
EduBodies == {[school |-> "a", degree |-> "a", fieldofstudy |-> "a", from |-> "a"],
              [school |-> "a", degree |-> "a", fieldofstudy |-> "", from |-> "a"]}

\* the express-validator checks: .not().isEmpty() on each required field
EntryErrors(keys, body) == {k \in keys : body[k] = ""}

\* newExp / newEdu as the array path casts it: a subdocument with its own id;
\* subdocument ids come from the counter that also numbers the comments
NewEntry(eid, keys, body) ==
    [k \in keys \cup {"id"} |-> IF k = "id" THEN eid ELSE body[k]]

\* profile[path].unshift(entry)
WithEntry(doc, path, entry) == [doc EXCEPT ![path] = Unshift(doc[path], entry)]

\* profile.save() of a loaded profile: the document is written back as loaded
\* and mutated; a profile removed meanwhile is not created again
SaveProfile(u, doc) ==
    IF ProfileIndex(u) = 0 THEN profiles ELSE [profiles EXCEPT ![ProfileIndex(u)] = doc]

\* the status that save() answers with, as for SaveStatuses
ProfileSaveStatuses(u) == IF ProfileIndex(u) = 0 THEN {200, 500} ELSE {200}

SaveProfileAndRespond(i, doc) ==
    /\ profiles' = SaveProfile(reqs[i].user, doc)
    /\ reqs' = [reqs EXCEPT ![i] = Idle]
    /\ \E st \in ProfileSaveStatuses(reqs[i].user) :
          Respond(Response(reqs[i].op, reqs[i].user, 0, reqs[i].arg, st,
                           IF st = 200 THEN "" ELSE SERVER_ERROR,
                           IF st = 200 THEN doc ELSE NoBody, reqs[i].snap))
    /\ UNCHANGED <<users, posts, nextPid, nextCid, nreq>>

NoProfile(profile) == profile = Null

AddEntryRead(op, keys, u, body) ==
    IF EntryErrors(keys, body) # {}
    THEN /\ Finish(Response(op, u, 0, body, 400, "validation", NoBody, Null))
         /\ UNCHANGED postVars
    ELSE IF NoProfile(FindProfile(u))
    THEN \* profile is null: profile.experience throws a TypeError
         /\ Finish(Response(op, u, 0, body, 500, SERVER_ERROR, NoBody, Null))
         /\ UNCHANGED postVars
    ELSE /\ nextCid <= MaxEntries
         /\ nextCid' = nextCid + 1
         /\ Park(op, u, 0, FindProfile(u), [entry |-> NewEntry(nextCid, keys, body)])
         /\ UNCHANGED <<users, posts, nextPid, profiles>>

AddEntryWrite(i, op, path) ==
    /\ reqs[i] # Idle
    /\ reqs[i].op = op
    /\ SaveProfileAndRespond(i, WithEntry(reqs[i].snap, path, reqs[i].arg.entry))

AddExperienceRead(u, body) == AddEntryRead("addExperience", ExpKeys, u, body)
AddExperienceWrite(i) == AddEntryWrite(i, "addExperience", "experience")
AddEducationRead(u, body) == AddEntryRead("addEducation", EduKeys, u, body)
AddEducationWrite(i) == AddEntryWrite(i, "addEducation", "education")

\* ------------------------------------------------------------------------
\* DELETE api/profile/experience/:exp_id, DELETE api/profile/education/:edu_id
\* ------------------------------------------------------------------------
\* profile[path].map(item => item.id).indexOf(id), 1-based, 0 when absent
EntryIndex(doc, path, eid) ==
    IF \E k \in 1..Len(doc[path]) : doc[path][k].id = eid
    THEN CHOOSE k \in 1..Len(doc[path]) :
            doc[path][k].id = eid /\ \A j \in 1..(k - 1) : doc[path][j].id # eid
    ELSE 0

WithoutEntry_Head(doc, path, eid) == [doc EXCEPT ![path] = Tail(doc[path])]

\* profile[path].splice(removeIndex, 1)
WithoutEntry(doc, path, eid) ==
    [doc EXCEPT ![path] = Splice1(doc[path], EntryIndex(doc, path, eid))]

RemoveEntryRead(op, path, u, eid) ==
    /\ UNCHANGED postVars
    /\ IF FindProfile(u) = Null
       THEN \* profile is null: profile.experience throws a TypeError
            Finish(Response(op, u, 0, [eid |-> eid], 500, SERVER_ERROR, NoBody, Null))
       ELSE IF EntryIndex(FindProfile(u), path, eid) = 0
       THEN Finish(Response(op, u, 0, [eid |-> eid], 200, "", FindProfile(u), FindProfile(u)))
       ELSE Park(op, u, 0, FindProfile(u), [eid |-> eid])

RemoveEntryWrite(i, op, path) ==
    /\ reqs[i] # Idle
    /\ reqs[i].op = op
    /\ SaveProfileAndRespond(i, WithoutEntry(reqs[i].snap, path, reqs[i].arg.eid))

RemoveExperienceRead(u, eid) == RemoveEntryRead("removeExperience", "experience", u, eid)
RemoveExperienceWrite(i) == RemoveEntryWrite(i, "removeExperience", "experience")
RemoveEducationRead(u, eid) == RemoveEntryRead("removeEducation", "education", u, eid)
RemoveEducationWrite(i) == RemoveEntryWrite(i, "removeEducation", "education")

Init ==
    /\ users = Users
    /\ posts = <<>>
    /\ nextPid = 1
    /\ nextCid = 1
    /\ profiles = <<>>
    /\ reqs = [i \in Slots |-> Idle]
    /\ nreq = 0
    /\ last = Idle

\* the store after createPost of a public post by user 1; nreq counts the
\* requests started after the initial state
InitOnePost ==
    /\ users = Users
    /\ posts = [p \in {1} |-> NewPost(1, "hello", [type |-> "boolean", val |-> "true"])]
    /\ nextPid = 2
    /\ nextCid = 1
    /\ profiles = <<>>
    /\ reqs = [i \in Slots |-> Idle]
    /\ nreq = 0
    /\ last = Idle

\* the store after createPost of a public post by user 1, addComment by
\* user 1 and then addComment by user 2 on that post
InitTwoComments ==
    /\ users = Users
    /\ posts = [p \in {1} |->
                  Commented(Commented(NewPost(1, "hello", [type |-> "boolean", val |-> "true"]),
                                      NewComment(1, 1, "hello")),
                            NewComment(2, 2, "hello"))]
    /\ nextPid = 2
    /\ nextCid = 3
    /\ profiles = <<>>
    /\ reqs = [i \in Slots |-> Idle]
    /\ nreq = 0
    /\ last = Idle

\* the body of the first upsertProfile of InitOneProfile
FirstBody ==
    [status |-> <<"a">>, skills |-> <<"b", " ">>, company |-> <<"b">>,
     website |-> <<"a">>, twitter |-> <<"a">>]

\* the store after the upsertProfile of user 1 with FirstBody
InitOneProfile ==
    /\ users = Users
    /\ posts = <<>>
    /\ nextPid = 1
    /\ nextCid = 1
    /\ profiles = <<NewProfile(ProfileFields(1, FirstBody))>>
    /\ reqs = [i \in Slots |-> Idle]
    /\ nreq = 0
    /\ last = Idle

Next ==
    \/ \E u \in Users, t \in Texts, x \in IspublicInputs : CreatePost(u, t, x)
    \/ \E u \in Users, id \in IdInputs : GetPost(u, id)
    \/ \E u \in Users, id \in IdInputs : DeletePostRead(u, id)
    \/ \E i \in Slots : DeletePostWrite(i)
    \/ \E u \in Users, id \in IdInputs : LikeRead(u, id)
    \/ \E i \in Slots : LikeWrite(i)
    \/ \E u \in Users, id \in IdInputs : UnlikeRead(u, id)
    \/ \E i \in Slots : UnlikeWrite(i)
    \/ \E u \in Users, id \in IdInputs, t \in Texts : AddCommentRead(u, id, t)
    \/ \E i \in Slots : AddCommentWrite(i)
    \/ \E u \in Users, id \in IdInputs, c \in CommentIdInputs : DeleteCommentRead(u, id, c)
    \/ \E i \in Slots : DeleteCommentWrite(i)
    \/ \E u \in Users : DeleteAccountProfile(u)
    \/ \E i \in Slots : DeleteAccountUser(i)

Spec == Init /\ [][Next]_vars

NextLikes ==
    \/ \E u \in Users, x \in BooleanInputs : CreatePost(u, "hello", x)
    \/ \E u \in Users, id \in IdInputs : LikeRead(u, id)
    \/ \E i \in Slots : LikeWrite(i)
    \/ \E u \in Users, id \in IdInputs : UnlikeRead(u, id)
    \/ \E i \in Slots : UnlikeWrite(i)
    \/ \E u \in Users, id \in IdInputs : DeletePostRead(u, id)
    \/ \E i \in Slots : DeletePostWrite(i)

SpecLikes == InitOnePost /\ [][NextLikes]_vars

\* the ids a request on the store of InitTwoComments can name: a malformed
\* id, the id of the stored post, a well-formed id of no post
SeededIdInputs == {0, 1, nextPid}

NextComments ==
    \/ \E u \in Users, id \in SeededIdInputs, t \in Texts : AddCommentRead(u, id, t)
    \/ \E i \in Slots : AddCommentWrite(i)
    \/ \E u \in Users, id \in SeededIdInputs, c \in CommentIdInputs : DeleteCommentRead(u, id, c)
    \/ \E i \in Slots : DeleteCommentWrite(i)

SpecComments == InitTwoComments /\ [][NextComments]_vars

NextPosts ==
    \/ \E u \in Users, x \in BooleanInputs : CreatePost(u, "hello", x)
    \/ \E u \in Users, id \in IdInputs : GetPost(u, id)
    \/ \E u \in Users, id \in IdInputs : DeletePostRead(u, id)
    \/ \E i \in Slots : DeletePostWrite(i)
    \/ \E u \in Users : DeleteAccountProfile(u)
    \/ \E i \in Slots : DeleteAccountUser(i)

SpecPosts == Init /\ [][NextPosts]_vars

NextCreate ==
    \/ \E u \in Users, t \in Texts, x \in IspublicInputs : CreatePost(u, t, x)
    \/ \E u \in Users, id \in IdInputs : GetPost(u, id)
    \/ \E u \in Users : DeleteAccountProfile(u)
    \/ \E i \in Slots : DeleteAccountUser(i)

SpecCreate == Init /\ [][NextCreate]_vars

NextProfile ==
    \/ \E u \in Users, body \in Bodies : UpsertRead(u, body)
    \/ \E i \in Slots : UpsertWrite(i)
    \/ \E u \in Users : DeleteAccountProfile(u)
    \/ \E i \in Slots : DeleteAccountUser(i)

SpecProfile == InitOneProfile /\ [][NextProfile]_vars

\* the entries of the initial profiles
FirstExp == [title |-> "a", company |-> "a", from |-> "a"]
FirstEdu == [school |-> "a", degree |-> "a", fieldofstudy |-> "a", from |-> "a"]

\* the store after the upsertProfile of user 1 with FirstBody, three
\* addExperience and then two addEducation by user 1
InitFiveEntries ==
    /\ users = Users
    /\ posts = <<>>
    /\ nextPid = 1
    /\ nextCid = 6
    /\ profiles =
          <<[NewProfile(ProfileFields(1, FirstBody)) EXCEPT
                !["experience"] = <<NewEntry(3, ExpKeys, FirstExp), NewEntry(2, ExpKeys, FirstExp),
                                    NewEntry(1, ExpKeys, FirstExp)>>,
                !["education"] = <<NewEntry(5, EduKeys, FirstEdu), NewEntry(4, EduKeys, FirstEdu)>>]>>
    /\ reqs = [i \in Slots |-> Idle]
    /\ nreq = 0
    /\ last = Idle

NextRemoveEntries ==
    \/ \E u \in Users, eid \in EntryIdInputs : RemoveExperienceRead(u, eid)
    \/ \E i \in Slots : RemoveExperienceWrite(i)
    \/ \E u \in Users, eid \in EntryIdInputs : RemoveEducationRead(u, eid)
    \/ \E i \in Slots : RemoveEducationWrite(i)

SpecRemoveEntries == InitFiveEntries /\ [][NextRemoveEntries]_vars

\* the routes that load a post, edit its arrays in memory and save it
NextSaves ==
    \/ \E u \in Users, id \in SeededIdInputs : LikeRead(u, id)
    \/ \E i \in Slots : LikeWrite(i)
    \/ \E u \in Users, id \in SeededIdInputs : UnlikeRead(u, id)
    \/ \E i \in Slots : UnlikeWrite(i)
    \/ \E u \in Users, id \in SeededIdInputs, t \in Texts : AddCommentRead(u, id, t)
    \/ \E i \in Slots : AddCommentWrite(i)

SpecSaves == InitOnePost /\ [][NextSaves]_vars

\* the routes that create a post and the routes that edit its arrays
NextPrivate ==
    \/ \E u \in Users, x \in BooleanInputs : CreatePost(u, "hello", x)
    \/ \E u \in Users, id \in IdInputs : LikeRead(u, id)
    \/ \E i \in Slots : LikeWrite(i)
    \/ \E u \in Users, id \in IdInputs : UnlikeRead(u, id)
    \/ \E i \in Slots : UnlikeWrite(i)
    \/ \E u \in Users, id \in IdInputs : AddCommentRead(u, id, "hello")
    \/ \E i \in Slots : AddCommentWrite(i)

SpecPrivate == InitOnePost /\ [][NextPrivate]_vars

\* the routes that add entries, next to the route that removes the profile
NextAddEntries ==
    \/ \E u \in Users, body \in ExpBodies : AddExperienceRead(u, body)
    \/ \E i \in Slots : AddExperienceWrite(i)
    \/ \E u \in Users, body \in EduBodies : AddEducationRead(u, body)
    \/ \E i \in Slots : AddEducationWrite(i)
    \/ \E u \in Users : DeleteAccountProfile(u)
    \/ \E i \in Slots : DeleteAccountUser(i)

SpecAddEntries == InitOneProfile /\ [][NextAddEntries]_vars

\* the account routes with store calls that may reject
NextAccount ==
    \/ \E u \in Users : UpsertRead(u, FirstBody)
    \/ \E i \in Slots : UpsertWrite(i)
    \/ \E u \in Users : DeleteAccountProfile(u)
    \/ \E u \in Users : DeleteAccountProfileFails(u)
    \/ \E i \in Slots : DeleteAccountUser(i)
    \/ \E i \in Slots : DeleteAccountUserFails(i)

SpecAccount == InitOneProfile /\ [][NextAccount]_vars

\* ------------------------------------------------------------------------
\* Properties
\* ------------------------------------------------------------------------
Range(s) == {s[k] : k \in 1..Len(s)}

\* this step took a new request and answered it at once
Answered == nreq' = nreq + 1 /\ reqs' = reqs

\* this step took a new request `op` by u on id, answered or parked
Started(op, u, id) ==
    /\ nreq' = nreq + 1
    /\ \/ reqs' = reqs /\ last'.op = op /\ last'.user = u /\ last'.pid = id
       \/ \E i \in Slots : /\ reqs[i] = Idle /\ reqs'[i] # Idle
                           /\ reqs'[i].op = op /\ reqs'[i].user = u /\ reqs'[i].pid = id

\* this step ended the parked request of slot i
Ended(i, op) == reqs[i] # Idle /\ reqs[i].op = op /\ reqs'[i] = Idle

\* C1: getPost answers with the post if and only if a post with that id is
\* stored and is public; every other case is the 404 'Post not found or is
\* private', never the generic 500.
C1_GetPostOrNotFound ==
    last.op = "getPost" =>
        IF last.pid \in DOMAIN posts /\ posts[last.pid].ispublic
        THEN last.status = 200 /\ last.body = posts[last.pid]
        ELSE last.status = 404 /\ last.msg = ERR_NOTFOUND

\* C2: in every reachable state no user id occurs twice in the like
\* sequence of a stored post, whatever the interleaving of like and unlike
\* requests.
C2_LikesUnique ==
    \A p \in DOMAIN posts :
        \A j, k \in 1..Len(posts[p].likes) :
            j # k => posts[p].likes[j] # posts[p].likes[k]

\* a like was saved while a second like by the same user on the same post,
\* loaded before that save, still waits for its own save
C2_Witness ==
    /\ last.op = "like" /\ last.status = 200
    /\ last.pid \in DOMAIN posts
    /\ \E i \in Slots : /\ reqs[i] # Idle /\ reqs[i].op = "like"
                        /\ reqs[i].user = last.user /\ reqs[i].pid = last.pid
                        /\ reqs[i].snap = last.snap

C4_DeleteComment ==
    [][/\ \A u \in Users, id \in DOMAIN posts, c \in CommentIdInputs :
             (Started("deleteComment", u, id)
                /\ (IF Answered THEN last'.arg.cid = c
                    ELSE \E i \in Slots : reqs[i] = Idle /\ reqs'[i] # Idle
                                            /\ reqs'[i].arg.cid = c)) =>
                IF \A k \in 1..Len(posts[id].comments) : posts[id].comments[k].id # c
                THEN Answered /\ last'.status = 404 /\ last'.msg = "Comment does not exist"
                              /\ posts' = posts
                ELSE IF \E k \in 1..Len(posts[id].comments) :
                            posts[id].comments[k].id = c /\ posts[id].comments[k].user # u
                THEN Answered /\ last'.status = 401 /\ posts' = posts
                ELSE ~Answered /\ posts' = posts
       /\ \A i \in Slots :
             (Ended(i, "deleteComment") /\ reqs[i].pid \in DOMAIN posts
                /\ posts[reqs[i].pid] = reqs[i].snap) =>
                LET Keep(c) == c.id # reqs[i].arg.cid
                IN  /\ last'.status = 200
                    /\ posts'[reqs[i].pid].comments =
                          SelectSeq(posts[reqs[i].pid].comments, Keep)
                    /\ Len(posts'[reqs[i].pid].comments) =
                          Len(posts[reqs[i].pid].comments) - 1
                    /\ posts' = [posts EXCEPT ![reqs[i].pid].comments =
                                                  posts'[reqs[i].pid].comments]]_vars

\* the author removed the middle one of three comments; the newest and the
\* oldest are kept, in that order
C4_Witness ==
    /\ last.op = "deleteComment" /\ last.status = 200
    /\ last.pid \in DOMAIN posts
    /\ Len(last.snap.comments) = 3
    /\ last.snap.comments[2].id = last.arg.cid
    /\ posts[last.pid].comments = <<last.snap.comments[1], last.snap.comments[3]>>

\* C5: on a stored public post, likePost by a user who is in the like
\* sequence answers 400 'Post already liked' and unlikePost by a user who is
\* not in it answers 400 'Post was never liked'; neither changes the store.
C5_LikeTwiceUnlikeNever ==
    [][\A u \in Users, id \in DOMAIN posts :
          /\ (Started("like", u, id) /\ posts[id].ispublic
                /\ u \in Range(posts[id].likes)) =>
                (Answered /\ last'.status = 400 /\ last'.msg = "Post already liked"
                          /\ posts' = posts)
          /\ (Started("unlike", u, id) /\ posts[id].ispublic
                /\ u \notin Range(posts[id].likes)) =>
                (Answered /\ last'.status = 400 /\ last'.msg = "Post was never liked"
                          /\ posts' = posts)]_vars

\* the second of two likes by one user was refused
C5_Witness ==
    /\ last.op = "like" /\ last.status = 400 /\ last.msg = "Post already liked"
    /\ last.pid \in DOMAIN posts
    /\ last.user \in Range(posts[last.pid].likes)

\* C6: when a like by a user who was not in the like sequence is followed at
\* once by the unlike of the same user on the same post, the stored like
\* sequence is again the one the like found: same members, same order.
C6_LikeThenUnlike ==
    [][\A i \in Slots :
          (/\ Ended(i, "unlike")
           /\ last.op = "like" /\ last.status = 200
           /\ last.user = reqs[i].user /\ last.pid = reqs[i].pid
           /\ last.user \notin Range(last.snap.likes)
           /\ reqs[i].pid \in DOMAIN posts
           /\ reqs[i].snap = posts[reqs[i].pid]) =>
              /\ last'.status = 200
              /\ posts'[reqs[i].pid].likes = last.snap.likes
              /\ posts' = [posts EXCEPT ![reqs[i].pid].likes = last.snap.likes]]_vars

\* an unlike took the user's like off the head of a sequence that holds
\* another user's like
C6_Witness ==
    /\ last.op = "unlike" /\ last.status = 200
    /\ last.pid \in DOMAIN posts
    /\ posts[last.pid].likes # <<>>
    /\ last.snap.likes = <<last.user>> \o posts[last.pid].likes

\* C7: a created post is public unless the submitted ispublic is the boolean
\* false; it has no likes and no comments and belongs to the requester.
C7_CreatePost ==
    (last.op = "createPost" /\ last.status = 200) =>
        /\ last.pid \in DOMAIN posts
        /\ posts[last.pid].ispublic = ~(last.arg.type = "boolean" /\ last.arg.val = "false")
        /\ posts[last.pid].likes = <<>>
        /\ posts[last.pid].comments = <<>>
        /\ posts[last.pid].user = last.user

\* a post submitted with the number 0 as ispublic is stored public
C7_Witness ==
    /\ last.op = "createPost" /\ last.status = 200
    /\ last.arg.type = "number" /\ last.arg.val = "0"
    /\ last.pid \in DOMAIN posts
    /\ posts[last.pid].ispublic

\* the first profile of user u in a collection
FirstProfile(ps, u) ==
    IF \E k \in 1..Len(ps) : ps[k].user = u
    THEN ps[CHOOSE k \in 1..Len(ps) : ps[k].user = u /\ \A j \in 1..(k - 1) : ps[j].user # u]
    ELSE Null

\* the profile of u before and after a step
Before(u) == FirstProfile(profiles, u)
After(u) == FirstProfile(profiles', u)

\* an upsert of slot i ends in this step on its update path, on a stored profile
Updates(i) ==
    /\ Ended(i, "upsert")
    /\ reqs[i].snap # Null
    /\ Before(reqs[i].user) # Null

\* the value stored for top-level key k of a body
StoredValue(body, k) == IF k = "skills" THEN SkillsOf(body[k]) ELSE body[k]

\* the top-level part of the merge, for the keys that count as given
MergedTop(u, body, given) ==
    \A k \in TopKeys :
        IF k \in given
        THEN k \in DOMAIN After(u) /\ After(u)[k] = StoredValue(body, k)
        ELSE /\ k \in DOMAIN After(u) <=> k \in DOMAIN Before(u)
             /\ k \in DOMAIN Before(u) => After(u)[k] = Before(u)[k]

\* an upsert of slot i ends in this step on its create path
Creates(i) == Ended(i, "upsert") /\ reqs[i].snap = Null

\* the top-level part of a created profile, for the keys that count as given
CreatedTop(body, given) ==
    /\ Len(profiles') = Len(profiles) + 1
    /\ \A k \in TopKeys :
          IF k \in given
          THEN /\ k \in DOMAIN profiles'[Len(profiles')]
               /\ profiles'[Len(profiles')][k] = StoredValue(body, k)
          ELSE k \notin DOMAIN profiles'[Len(profiles')]

\* C8 as stated: the first upsertProfile of a user stores the top-level keys
\* its body carries; the second stores its value on every top-level key its
\* body carries and keeps the stored value of every other key, so that the
\* profile holds the union of the keys of both calls.
C8_UnionOfKeysGiven ==
    [][\A i \in Slots :
          /\ Creates(i) => CreatedTop(reqs[i].arg, TopKeys \cap DOMAIN reqs[i].arg)
          /\ Updates(i) => MergedTop(reqs[i].user, reqs[i].arg,
                                     TopKeys \cap DOMAIN reqs[i].arg)]_vars

\* C8 amended: the first upsertProfile of a user stores the top-level keys
\* its body carries with a non-empty value; the second stores its value on
\* every top-level key its body carries with a non-empty value (skills
\* replaces the stored list) and keeps the stored value of every other key,
\* the keys carried as the empty string included.
C8_UnionOfKeysNonEmpty ==
    [][\A i \in Slots :
          /\ Creates(i) => CreatedTop(reqs[i].arg, {k \in TopKeys : Given(reqs[i].arg, k)})
          /\ Updates(i) => MergedTop(reqs[i].user, reqs[i].arg,
                                     {k \in TopKeys : Given(reqs[i].arg, k)})]_vars

\* a second call kept a key of the first (website), added a key (location)
\* and replaced skills
C8_Witness ==
    /\ last.op = "upsert" /\ last.status = 200 /\ last.msg = "update"
    /\ last.snap # Null /\ last.body # Null
    /\ "website" \in DOMAIN last.snap /\ "website" \notin DOMAIN last.arg
    /\ "website" \in DOMAIN last.body /\ last.body["website"] = last.snap["website"]
    /\ "location" \notin DOMAIN last.snap /\ "location" \in DOMAIN last.body
    /\ last.body["skills"] # last.snap["skills"]

\* C9: an upsertProfile on a stored profile keeps the stored value of every
\* social sub-field its body does not carry and overwrites the others.
C9_SocialMerge ==
    [][\A i \in Slots :
          Updates(i) =>
             \A k \in SocialKeys :
                IF Given(reqs[i].arg, k)
                THEN /\ k \in DOMAIN After(reqs[i].user)["social"]
                     /\ After(reqs[i].user)["social"][k] = reqs[i].arg[k]
                ELSE /\ k \in DOMAIN After(reqs[i].user)["social"]
                          <=> k \in DOMAIN Before(reqs[i].user)["social"]
                     /\ k \in DOMAIN Before(reqs[i].user)["social"] =>
                          After(reqs[i].user)["social"][k] = Before(reqs[i].user)["social"][k]]_vars

\* C10: in every reachable state a user has at most one profile.
C10_OneProfilePerUser ==
    \A u \in Users : Cardinality({k \in 1..Len(profiles) : profiles[k].user = u}) <= 1

\* C11: a deleteProfileAndUser that ends on the generic 500 because a store
\* call rejected leaves users, profiles and posts as they were before it
\* started; stated for a request answered at once and for a parked request
\* that is the only request since the initial state, whose store is then the
\* initial one.
C11_NoPartialWrite ==
    [][/\ (Answered /\ last'.op = "deleteAccount" /\ last'.status = 500) =>
             (users' = users /\ profiles' = profiles /\ posts' = posts)
       /\ \A i \in Slots :
             (Ended(i, "deleteAccount") /\ last'.status = 500 /\ nreq = 1) =>
                /\ users' = Users
                /\ posts' = <<>>
                /\ profiles' = <<NewProfile(ProfileFields(1, FirstBody))>>]_vars

\* the array path a removal route edits
PathOf(op) == IF op = "removeExperience" THEN "experience" ELSE "education"

\* C12: for a user who has a profile, removeExperience (removeEducation)
\* with an id that no entry of the experience (education) sequence has
\* answers 200 with the profile and leaves the store as it was; with the id
\* of an entry it removes that entry alone and keeps the others in their
\* order.
C12_RemoveEntry ==
    [][\A op \in {"removeExperience", "removeEducation"} :
          /\ \A u \in Users, eid \in EntryIdInputs :
                (Started(op, u, 0)
                   /\ (IF Answered THEN last'.arg.eid = eid
                       ELSE \E i \in Slots : reqs[i] = Idle /\ reqs'[i] # Idle
                                               /\ reqs'[i].arg.eid = eid)
                   /\ Before(u) # Null) =>
                   IF \A k \in 1..Len(Before(u)[PathOf(op)]) :
                         Before(u)[PathOf(op)][k].id # eid
                   THEN Answered /\ last'.status = 200 /\ last'.body = Before(u)
                                 /\ profiles' = profiles
                   ELSE ~Answered /\ profiles' = profiles
          /\ \A i \in Slots :
                (Ended(i, op) /\ Before(reqs[i].user) = reqs[i].snap) =>
                   LET Keep(e) == e.id # reqs[i].arg.eid
                   IN  /\ last'.status = 200
                       /\ After(reqs[i].user)[PathOf(op)] =
                             SelectSeq(Before(reqs[i].user)[PathOf(op)], Keep)
                       /\ Len(After(reqs[i].user)[PathOf(op)]) =
                             Len(Before(reqs[i].user)[PathOf(op)]) - 1
                       /\ After(reqs[i].user) =
                             [Before(reqs[i].user) EXCEPT
                                ![PathOf(op)] = After(reqs[i].user)[PathOf(op)]]
                       /\ Len(profiles') = Len(profiles)
                       /\ last'.body = After(reqs[i].user)]_vars

\* the middle one of three experience entries was removed; the newest and
\* the oldest are kept, in that order, and education is as it was loaded
C12_Witness ==
    /\ last.op = "removeExperience" /\ last.status = 200
    /\ last.snap # Null /\ Len(last.snap["experience"]) = 3
    /\ last.arg.eid = last.snap["experience"][2].id
    /\ FindProfile(last.user) # Null
    /\ FindProfile(last.user)["experience"] =
          <<last.snap["experience"][1], last.snap["experience"][3]>>
    /\ FindProfile(last.user)["education"] = last.snap["education"]

\* C13: addExperience by a user who has a profile puts the new entry at the
\* head of the experience sequence, the earlier entries following in their
\* order; by a user who has no profile it answers at once with NotFound (404,
\* or 400 on the endpoints that report it so), never the generic 500, and
\* changes nothing in the store.
C13_AddExperience ==
    [][/\ \A u \in Users :
             (Started("addExperience", u, 0) /\ Before(u) = Null) =>
                /\ Answered
                /\ EntryErrors(ExpKeys, last'.arg) = {} =>
                      (last'.status \in {400, 404} /\ last'.msg # SERVER_ERROR)
                /\ users' = users /\ profiles' = profiles /\ posts' = posts
       /\ \A i \in Slots :
             (Ended(i, "addExperience") /\ Before(reqs[i].user) = reqs[i].snap) =>
                /\ last'.status = 200
                /\ After(reqs[i].user)["experience"] =
                      <<reqs[i].arg.entry>> \o Before(reqs[i].user)["experience"]
                /\ After(reqs[i].user) =
                      [Before(reqs[i].user) EXCEPT
                         !["experience"] = After(reqs[i].user)["experience"]]]_vars

\* C14: lost update. When the like of user A on a public post was saved and
\* answered 200 after the like of another user B on that post had loaded the
\* post, the save of B's like also answers 200 and stores the likes B
\* loaded plus B: A's like is gone. In the same way the save of a like
\* drops a comment that was saved after the like loaded the post.
C14_LostUpdate ==
    [][\A i \in Slots :
          (/\ Ended(i, "like")
           /\ reqs[i].pid \in DOMAIN posts
           /\ last # Idle /\ last.status = 200 /\ last.pid = reqs[i].pid
           /\ last.user # reqs[i].user) =>
             /\ (last.op = "like"
                   /\ last.user \notin Range(reqs[i].snap.likes)
                   /\ last.user \in Range(posts[reqs[i].pid].likes)) =>
                   /\ last'.op = "like" /\ last'.user = reqs[i].user /\ last'.status = 200
                   /\ posts'[reqs[i].pid].likes = Unshift(reqs[i].snap.likes, reqs[i].user)
                   /\ last.user \notin Range(posts'[reqs[i].pid].likes)
             /\ (last.op = "addComment"
                   /\ last.body.comments[1] \notin Range(reqs[i].snap.comments)
                   /\ last.body.comments[1] \in Range(posts[reqs[i].pid].comments)) =>
                   /\ last'.op = "like" /\ last'.user = reqs[i].user /\ last'.status = 200
                   /\ reqs[i].user \in Range(posts'[reqs[i].pid].likes)
                   /\ last.body.comments[1] \notin Range(posts'[reqs[i].pid].comments)]_vars

\* the like of one user was saved and answered 200 while the like of
\* another user, which loaded the post before that save, waits for its own
\* save, the step C14_LostUpdate is about
C14_Witness ==
    /\ last # Idle /\ last.op = "like" /\ last.status = 200
    /\ last.pid \in DOMAIN posts
    /\ last.user \in Range(posts[last.pid].likes)
    /\ \E i \in Slots :
          /\ reqs[i] # Idle /\ reqs[i].op = "like" /\ reqs[i].pid = last.pid
          /\ reqs[i].user # last.user
          /\ last.user \notin Range(reqs[i].snap.likes)

\* C15: in every reachable state a stored post with ispublic = false has no
\* likes and no comments.
C15_PrivateUntouched ==
    \A p \in DOMAIN posts :
        ~posts[p].ispublic => (posts[p].likes = <<>> /\ posts[p].comments = <<>>)

\* a like or a comment on a stored private post was refused with 404 while
\* a public post holds a like or a comment
C15_Witness ==
    /\ last # Idle /\ last.op \in {"like", "addComment"}
    /\ last.status = 404 /\ last.msg = ERR_NOTFOUND
    /\ last.pid \in DOMAIN posts /\ ~posts[last.pid].ispublic
    /\ posts[last.pid].likes = <<>> /\ posts[last.pid].comments = <<>>
    /\ \E p \in DOMAIN posts :
          posts[p].ispublic /\ (posts[p].likes # <<>> \/ posts[p].comments # <<>>)
====
